---- MODULE Spec2Model ----
(***************************************************************************)
(* Word Puzzle Searcher: the letter-count encoder (count.rs), the          *)
(* dictionary index (dict.rs), the binary format codec (format.rs) and the *)
(* search of main.rs.  Text is modelled as sequences of bytes (0..255), a  *)
(* CountSet as a sequence of 13 bytes, usize as a 64-bit integer.          *)
(***************************************************************************)
EXTENDS Integers, Sequences, FiniteSets, TLC

VARIABLES
    word_string,  \* Dictionary.word_string: the backing text buffer (bytes)
    word_count,   \* Dictionary.word_count: function from <<offset, len>> to CountSet
    word_set,     \* Dictionary.word_set: the existence-check set of word texts
    file,         \* the bytes of the dictionary file last written
    ret,          \* the last call: its name, its arguments and what it returned
    origin,       \* how the current index was constructed: "new" or "read"
    inserted,     \* history: the words whose add returned Ok since construction
    input         \* the argument of the pure operation under check

vars == <<word_string, word_count, word_set, file, ret, origin, inserted, input>>

----------------------------------------------------------------------------
(* Bounds of the model *)

\* longest run of one character in a generated word
MaxRun == 16
\* largest small nibble value of a generated CountSet byte (15 is always used)
MaxNib == 1
\* add is called while the buffer is shorter than this
MaxBuf == 3
\* add is called while the index holds fewer entries than this
MaxEntries == 3
\* largest minimum and maximum length given to the search
MaxLen == 2
\* largest string length and record count declared by a generated file
MaxStr == 3
MaxRecs == 2

----------------------------------------------------------------------------
(* u8 arithmetic *)

RECURSIVE BitAnd(_, _)
BitAnd(x, y) ==
    IF x = 0 \/ y = 0 THEN 0
    ELSE (x % 2) * (y % 2) + 2 * BitAnd(x \div 2, y \div 2)

RECURSIVE BitOr(_, _)
BitOr(x, y) ==
    IF x = 0 THEN y
    ELSE IF y = 0 THEN x
    ELSE (IF x % 2 = 1 \/ y % 2 = 1 THEN 1 ELSE 0) + 2 * BitOr(x \div 2, y \div 2)

\* x << n on u8 (n < 8): the bits shifted out are dropped
Shl8(x, n) == (x * (2 ^ n)) % 256

\* x >> n on u8
Shr8(x, n) == x \div (2 ^ n)

----------------------------------------------------------------------------
(* count.rs *)

\* the all-zero blocks `[0; 13]` and `[0u8; 26]`
Zero13 == [i \in 1..13 |-> 0]
Zero26 == [i \in 1..26 |-> 0]

\* to_index_offset with the nibbles of a byte in the other order
to_index_offset_mut(index) == <<index \div 2, ((1 - (index % 2)) * 4) % 256>>

\* 26-based index to the 13-based <<index, offset>> pair
to_index_offset(index) == <<index \div 2, ((index % 2) * 4) % 256>>

is_ascii(word) == \A k \in 1..Len(word) : word[k] < 128

is_ascii_alphabetic(b) == (b >= 65 /\ b <= 90) \/ (b >= 97 /\ b <= 122)

to_ascii_uppercase(b) == IF b >= 97 /\ b <= 122 THEN b - 32 ELSE b

\* TryFrom<[u8; 26]> for CountSet: the loop from letter i on, `count` the block so far
RECURSIVE try_from_loop(_, _, _)
try_from_loop(array, i, count) ==
    IF i > 25 THEN [ok |-> TRUE, val |-> count]
    ELSE IF array[i + 1] > 15 THEN [ok |-> FALSE, err |-> "CountOverflow"]
    ELSE LET io == to_index_offset(i)
         IN  try_from_loop(array, i + 1,
                 [count EXCEPT ![io[1] + 1] = BitOr(@, Shl8(array[i + 1], io[2]))])

try_from(array) == try_from_loop(array, 0, Zero13)

\* the try_for_each of from_word: byte k of the word on, `count` the counters so far
RECURSIVE count_letters(_, _, _)
count_letters(word, k, count) ==
    IF k > Len(word) THEN [ok |-> TRUE, val |-> count]
    ELSE LET i == to_ascii_uppercase(word[k]) - 65
         IN  IF count[i + 1] = 255 THEN [ok |-> FALSE, err |-> "CountOverflow"]
             ELSE count_letters(word, k + 1, [count EXCEPT ![i + 1] = @ + 1])

\* from_word with the alphabetic check before the ASCII check
from_word_mut(word) ==
    IF ~(\A k \in 1..Len(word) : is_ascii_alphabetic(word[k]))
    THEN [ok |-> FALSE, err |-> "NotAlphabetic"]
    ELSE IF ~is_ascii(word) THEN [ok |-> FALSE, err |-> "NotAscii"]
    ELSE LET c == count_letters(word, 1, Zero26)
         IN  IF ~c.ok THEN c ELSE try_from(c.val)

from_word(word) ==
    IF ~is_ascii(word) THEN [ok |-> FALSE, err |-> "NotAscii"]
    ELSE IF ~(\A k \in 1..Len(word) : is_ascii_alphabetic(word[k]))
         THEN [ok |-> FALSE, err |-> "NotAlphabetic"]
    ELSE LET c == count_letters(word, 1, Zero26)
         IN  IF ~c.ok THEN c ELSE try_from(c.val)

index_unchecked(self, index) ==
    LET io == to_index_offset(index)
    IN  Shr8(BitAnd(self[io[1] + 1], Shl8(15, io[2])), io[2])

\* CountSetIter::next ending one letter early
next_mut(count, index) ==
    IF index > 24 THEN [some |-> FALSE]
    ELSE [some |-> TRUE, value |-> index_unchecked(count, index), index |-> index + 1]

\* CountSetIter::next at position `index` of `count`
next(count, index) ==
    IF index > 25 THEN [some |-> FALSE]
    ELSE [some |-> TRUE, value |-> index_unchecked(count, index), index |-> index + 1]

\* self.iter().zip(other.iter()).all(|(s, o)| s >= o), the iterators at si and oi
RECURSIVE zip_all(_, _, _, _)
zip_all(self, si, other, oi) ==
    LET s == next(self, si)
    IN  IF ~s.some THEN TRUE
        ELSE LET o == next(other, oi)
             IN  IF ~o.some THEN TRUE
                 ELSE IF ~(s.value >= o.value) THEN FALSE
                 ELSE zip_all(self, s.index, other, o.index)

contains(self, other) == zip_all(self, 0, other, 0)

\* From<CountSet> for [u8; 26]: the loop over count.iter().enumerate()
RECURSIVE into_array_loop(_, _, _)
into_array_loop(count, index, array) ==
    LET c == next(count, index)
    IN  IF ~c.some THEN array
        ELSE into_array_loop(count, c.index, [array EXCEPT ![index + 1] = c.value])

into_array(count) == into_array_loop(count, 0, Zero26)

----------------------------------------------------------------------------
(* str: UTF-8 validity, char boundaries, slicing, ordering *)

IsCont(b) == b >= 128 /\ b <= 191

\* String::from_utf8(v).is_ok(), from byte k on
RECURSIVE from_utf8_ok(_, _)
from_utf8_ok(v, k) ==
    IF k > Len(v) THEN TRUE
    ELSE LET b == v[k]
             c(j) == k + j <= Len(v) /\ IsCont(v[k + j])
         IN  IF b < 128 THEN from_utf8_ok(v, k + 1)
             ELSE IF b >= 194 /\ b <= 223 THEN c(1) /\ from_utf8_ok(v, k + 2)
             ELSE IF b = 224
                  THEN c(1) /\ v[k + 1] >= 160 /\ c(2) /\ from_utf8_ok(v, k + 3)
             ELSE IF (b >= 225 /\ b <= 236) \/ b = 238 \/ b = 239
                  THEN c(1) /\ c(2) /\ from_utf8_ok(v, k + 3)
             ELSE IF b = 237
                  THEN c(1) /\ v[k + 1] <= 159 /\ c(2) /\ from_utf8_ok(v, k + 3)
             ELSE IF b = 240
                  THEN c(1) /\ v[k + 1] >= 144 /\ c(2) /\ c(3) /\ from_utf8_ok(v, k + 4)
             ELSE IF b >= 241 /\ b <= 243
                  THEN c(1) /\ c(2) /\ c(3) /\ from_utf8_ok(v, k + 4)
             ELSE IF b = 244
                  THEN c(1) /\ v[k + 1] <= 143 /\ c(2) /\ c(3) /\ from_utf8_ok(v, k + 4)
             ELSE FALSE

\* str::is_char_boundary(index)
is_char_boundary(s, index) ==
    \/ index = 0
    \/ index = Len(s)
    \/ (index < Len(s) /\ ~IsCont(s[index + 1]))

\* &s[begin..end]: the slice, or a panic
str_index(s, begin, end) ==
    IF begin <= end /\ end <= Len(s) /\ is_char_boundary(s, begin) /\ is_char_boundary(s, end)
    THEN [ok |-> TRUE, val |-> SubSeq(s, begin + 1, end)]
    ELSE [ok |-> FALSE]

\* Ord for str: x <= y, byte-wise lexicographic
RECURSIVE str_le(_, _)
str_le(x, y) ==
    IF x = <<>> THEN TRUE
    ELSE IF y = <<>> THEN FALSE
    ELSE IF Head(x) # Head(y) THEN Head(x) < Head(y)
    ELSE str_le(Tail(x), Tail(y))

----------------------------------------------------------------------------
(* dict.rs *)

\* HashMap::insert: the value of an existing key is replaced
map_insert(m, key, val) == [k \in DOMAIN m \cup {key} |-> IF k = key THEN val ELSE m[k]]

\* Dictionary::len
len(wc) == Cardinality(DOMAIN wc)

\* Dictionary::add without the existence check
add_mut(ws, wc, wset, word) ==
    LET set == from_word(word)
    IN  IF ~set.ok
        THEN [word_string |-> ws \o word, word_count |-> wc, word_set |-> wset,
              res |-> [ok |-> FALSE, err |-> set.err]]
        ELSE [word_string |-> ws \o word,
              word_count |-> map_insert(wc, <<Len(ws), Len(word)>>, set.val),
              word_set |-> wset \cup {word},
              res |-> [ok |-> TRUE]]

\* Dictionary::add: the index and the result it leaves.  The word is pushed to
\* the buffer before from_word is evaluated, whose error `?` returns.
add(ws, wc, wset, word) ==
    IF word \notin wset
    THEN LET offset == Len(ws)
             length == Len(word)
             pushed == ws \o word
             set    == from_word(word)
         IN  IF ~set.ok
             THEN [word_string |-> pushed, word_count |-> wc, word_set |-> wset,
                   res |-> [ok |-> FALSE, err |-> set.err]]
             ELSE [word_string |-> pushed,
                   word_count |-> map_insert(wc, <<offset, length>>, set.val),
                   word_set |-> wset \cup {word},
                   res |-> [ok |-> TRUE]]
    ELSE [word_string |-> ws, word_count |-> wc, word_set |-> wset, res |-> [ok |-> TRUE]]

\* from_raw_parts rebuilding the existence-check set from the entries
from_raw_parts_mut(ws, wc) ==
    [word_string |-> ws, word_count |-> wc,
     word_set |-> {SubSeq(ws, k[1] + 1, k[1] + k[2]) : k \in DOMAIN wc}]

\* Dictionary::from_raw_parts
from_raw_parts(ws, wc) == [word_string |-> ws, word_count |-> wc, word_set |-> {}]

\* the DictionaryEntry that drive_unindexed maps a (span, set) pair to
entry(ws, wc, key) ==
    LET w == str_index(ws, key[1], key[1] + key[2])
    IN  IF w.ok THEN [ok |-> TRUE, word |-> w.val, count_set |-> wc[key]]
        ELSE [ok |-> FALSE]

----------------------------------------------------------------------------
(* format.rs *)

FORMAT_VERSION == 1
USIZE == 8
COUNT_SET_SIZE == 13
WORD_COUNT_STRIDE == USIZE * 2 + COUNT_SET_SIZE

\* b"DICT"
MAGIC == <<68, 73, 67, 84>>

\* to_le_bytes of an integer of `width` bytes
RECURSIVE to_le_bytes(_, _)
to_le_bytes(n, width) ==
    IF width = 0 THEN <<>> ELSE <<n % 256>> \o to_le_bytes(n \div 256, width - 1)

\* from_le_bytes
RECURSIVE from_le_bytes(_)
from_le_bytes(b) == IF b = <<>> THEN 0 ELSE Head(b) + 256 * from_le_bytes(Tail(b))

\* Read::read_exact of n bytes at position pos of a reader that yields r.bytes
\* and then ends (r.end = "eof") or fails (r.end = "err")
read_exact(r, pos, n) ==
    IF pos + n <= Len(r.bytes)
    THEN [ok |-> TRUE, buf |-> SubSeq(r.bytes, pos + 1, pos + n), pos |-> pos + n]
    ELSE [ok |-> FALSE, kind |-> IF r.end = "eof" THEN "UnexpectedEof" ELSE "Other"]

IoError(e) == [ok |-> FALSE, err |-> "IoError", kind |-> e.kind]
FormatError == [ok |-> FALSE, err |-> "FormatError"]

\* the map and collect of read_dict over records i..n-1 of the record buffer
RECURSIVE collect_records(_, _, _, _)
collect_records(buf, i, n, m) ==
    IF i >= n THEN m
    ELSE LET count_element ==
                 SubSeq(buf, i * WORD_COUNT_STRIDE + 1, (i + 1) * WORD_COUNT_STRIDE)
             offset == from_le_bytes(SubSeq(count_element, 1, USIZE))
             length == from_le_bytes(SubSeq(count_element, USIZE + 1, USIZE * 2))
             set    == SubSeq(count_element, USIZE * 2 + 1, WORD_COUNT_STRIDE)
         IN  collect_records(buf, i + 1, n, map_insert(m, <<offset, length>>, set))

\* the tail of read_dict: the record area
read_records(r, pos, word_count_length, text) ==
    LET b == read_exact(r, pos, word_count_length * WORD_COUNT_STRIDE)
    IN  IF ~b.ok
        THEN (IF b.kind = "UnexpectedEof" THEN FormatError ELSE IoError(b))
        ELSE [ok |-> TRUE, word_string |-> text,
              word_count |-> collect_records(b.buf, 0, word_count_length,
                                             [k \in {} |-> <<>>])]

\* read_dict after the version check: the two lengths and the word string
read_body(r, pos) ==
    LET wcl == read_exact(r, pos, USIZE)
    IN  IF ~wcl.ok THEN IoError(wcl)
        ELSE LET sl == read_exact(r, wcl.pos, USIZE)
             IN  IF ~sl.ok THEN IoError(sl)
                 ELSE LET ws == read_exact(r, sl.pos, from_le_bytes(sl.buf))
                      IN  IF ~ws.ok THEN IoError(ws)
                          ELSE IF ~from_utf8_ok(ws.buf, 1) THEN FormatError
                          ELSE read_records(r, ws.pos, from_le_bytes(wcl.buf), ws.buf)

read_dict(r) ==
    LET magic == read_exact(r, 0, 4)
    IN  IF ~magic.ok THEN IoError(magic)
        ELSE IF magic.buf # MAGIC THEN FormatError
        ELSE LET version == read_exact(r, magic.pos, 4)
             IN  IF ~version.ok THEN IoError(version)
                 ELSE IF from_le_bytes(version.buf) # FORMAT_VERSION THEN FormatError
                 ELSE read_body(r, version.pos)

\* the record loop of write_dict, the map yielding its keys in `order`
RECURSIVE write_records(_, _)
write_records(wc, order) ==
    IF order = <<>> THEN <<>>
    ELSE LET key == Head(order)
         IN  to_le_bytes(key[1], USIZE) \o to_le_bytes(key[2], USIZE) \o wc[key]
                 \o write_records(wc, Tail(order))

\* write_dict with the string length written before the record count
write_dict_mut(ws, wc, order) ==
    MAGIC \o to_le_bytes(FORMAT_VERSION, 4) \o to_le_bytes(Len(ws), USIZE)
        \o to_le_bytes(len(wc), USIZE) \o ws \o write_records(wc, order)

\* write_dict into a writer that takes every byte
write_dict(ws, wc, order) ==
    MAGIC \o to_le_bytes(FORMAT_VERSION, 4) \o to_le_bytes(len(wc), USIZE)
        \o to_le_bytes(Len(ws), USIZE) \o ws \o write_records(wc, order)

\* the orders in which a HashMap may yield its keys
RECURSIVE Orders(_)
Orders(S) ==
    IF S = {} THEN {<<>>}
    ELSE UNION {{<<x>> \o t : t \in Orders(S \ {x})} : x \in S}

----------------------------------------------------------------------------
(* main.rs: Opt::Search *)

\* Option<usize>
None == [some |-> FALSE]
Some(n) == [some |-> TRUE, val |-> n]

\* .filter(|entry| letter_count.contains(entry.count_set)): the spans that pass
filter_contains(ws, wc, letter_count) ==
    {k \in DOMAIN wc : contains(letter_count, entry(ws, wc, k).count_set)}

\* .map(|entry| entry.word).filter(|word| ...): the spans among `keys` whose
\* word is within the length bounds
filter_length(ws, wc, keys, min_length, max_length) ==
    {k \in keys :
        LET word == entry(ws, wc, k).word
        IN  /\ Len(word) >= min_length
            /\ (IF max_length.some THEN Len(word) <= max_length.val ELSE TRUE)}

\* collect(): the words of the kept entries, in the order the scan yields them
search_collect(ws, wc, order) == [i \in 1..Len(order) |-> entry(ws, wc, order[i]).word]

\* insertion of word w into an ascending sequence
RECURSIVE sort_insert(_, _)
sort_insert(w, v) ==
    IF v = <<>> THEN <<w>>
    ELSE IF str_le(w, Head(v)) THEN <<w>> \o v
    ELSE <<Head(v)>> \o sort_insert(w, Tail(v))

\* the words left in the order collected
par_sort_unstable_mut(v) == v

\* words.par_sort_unstable()
RECURSIVE par_sort_unstable(_)
par_sort_unstable(v) ==
    IF v = <<>> THEN <<>> ELSE sort_insert(Head(v), par_sort_unstable(Tail(v)))

\* the Search arm of main up to the first filter: the error of from_word, a
\* panic of the slicing in drive_unindexed, or the spans whose letters the
\* query contains
search_scan(ws, wc, letters) ==
    LET letter_count == from_word(letters)
    IN  IF ~letter_count.ok THEN [ok |-> FALSE, err |-> letter_count.err]
        ELSE IF \E k \in DOMAIN wc : ~entry(ws, wc, k).ok
             THEN [ok |-> FALSE, err |-> "panic"]
        ELSE [ok |-> TRUE, matched |-> filter_contains(ws, wc, letter_count.val)]

----------------------------------------------------------------------------
(* The index as `Dictionary::new()` leaves it *)

EmptyMap == [k \in {} |-> Zero13]

NewIndex ==
    /\ word_string = <<>>
    /\ word_count = EmptyMap
    /\ word_set = {}
    /\ file = <<>>
    /\ origin = "new"
    /\ inserted = {}

UnchangedIndex == UNCHANGED <<word_string, word_count, word_set, file, origin, inserted>>

----------------------------------------------------------------------------
(* The encoder on generated words: from_word, then the decoding into [u8; 26] *)

RECURSIVE Rep(_, _)
Rep(c, n) == IF n = 0 THEN <<>> ELSE c \o Rep(c, n - 1)

\* characters as UTF-8: a A b z Z, the digit 1, the neighbours @ [ ` { of the
\* letter ranges, and the two-byte o-slash
GenChars ==
    {<<97>>, <<65>>, <<98>>, <<122>>, <<90>>, <<49>>, <<64>>, <<91>>, <<96>>, <<123>>,
     <<195, 184>>}

\* a run of one character followed by a run of another
GenWords ==
    {Rep(c1, n1) \o Rep(c2, n2) : <<c1, n1, c2, n2>> \in
        GenChars \X (0..MaxRun) \X GenChars \X (0..MaxRun)}

InitEncode ==
    /\ NewIndex
    /\ input \in GenWords
    /\ ret = [op |-> "none"]

CallFromWord ==
    /\ ret.op = "none"
    /\ ret' = [op |-> "from_word", word |-> input, res |-> from_word(input)]
    /\ UNCHANGED input
    /\ UnchangedIndex

CallIntoArray ==
    /\ ret.op = "from_word"
    /\ ret.res.ok
    /\ ret' = [op |-> "into_array", word |-> input, set |-> ret.res.val,
               array |-> into_array(ret.res.val)]
    /\ UNCHANGED input
    /\ UnchangedIndex

NextEncode == CallFromWord \/ CallIntoArray

SpecEncode == InitEncode /\ [][NextEncode]_vars

----------------------------------------------------------------------------
(* Containment on generated CountSets *)

NibVals == (0..MaxNib) \cup {15}

\* blocks with one chosen byte (low nibble lo, high nibble hi) at position p,
\* the other twelve bytes zero
GenSets ==
    {[i \in 1..13 |-> IF i = p THEN lo + 16 * hi ELSE 0] :
        <<p, lo, hi>> \in (1..13) \X NibVals \X NibVals}

InitContains ==
    /\ NewIndex
    /\ input \in GenSets \X GenSets
    /\ ret = [op |-> "none"]

CallContains ==
    /\ ret.op = "none"
    /\ ret' = [op |-> "contains", self |-> input[1], other |-> input[2],
               val |-> contains(input[1], input[2])]
    /\ UNCHANGED input
    /\ UnchangedIndex

CallContainsSelf ==
    /\ ret.op = "none"
    /\ ret' = [op |-> "contains", self |-> input[1], other |-> input[1],
               val |-> contains(input[1], input[1])]
    /\ UNCHANGED input
    /\ UnchangedIndex

NextContains == CallContains \/ CallContainsSelf

SpecContains == InitContains /\ [][NextContains]_vars

----------------------------------------------------------------------------
(* The index under add, write_dict and read_dict *)

\* the words offered to add: "", a, A, ab; and a1, o-slash and sixteen a's,
\* which from_word rejects
DictWords ==
    {<<>>, <<97>>, <<65>>, <<97, 98>>,
     <<97, 49>>, <<195, 184>>, Rep(<<97>>, 16)}

Init ==
    /\ NewIndex
    /\ input = <<>>
    /\ ret = [op |-> "none"]

Add(w) ==
    /\ Len(word_string) < MaxBuf
    /\ len(word_count) < MaxEntries
    /\ LET r == add(word_string, word_count, word_set, w)
       IN  /\ word_string' = r.word_string
           /\ word_count' = r.word_count
           /\ word_set' = r.word_set
           /\ inserted' = IF r.res.ok THEN inserted \cup {w} ELSE inserted
           /\ ret' = [op |-> "add", word |-> w, res |-> r.res]
    /\ UNCHANGED <<file, origin, input>>

Write ==
    /\ ret.op # "write"
    /\ \E order \in Orders(DOMAIN word_count) :
           /\ file' = write_dict(word_string, word_count, order)
           /\ ret' = [op |-> "write", order |-> order]
    /\ UNCHANGED <<word_string, word_count, word_set, origin, inserted, input>>

Read ==
    /\ file # <<>>
    /\ LET r == read_dict([bytes |-> file, end |-> "eof"])
       IN  IF r.ok
           THEN LET d == from_raw_parts(r.word_string, r.word_count)
                IN  /\ word_string' = d.word_string
                    /\ word_count' = d.word_count
                    /\ word_set' = d.word_set
                    /\ origin' = "read"
                    /\ inserted' = {}
                    /\ ret' = [op |-> "read", res |-> [ok |-> TRUE]]
           ELSE /\ ret' = [op |-> "read", res |-> r]
                /\ UNCHANGED <<word_string, word_count, word_set, origin, inserted>>
    /\ UNCHANGED <<file, input>>

\* (writing twice in a row reaches no state that one write does not)
Next == (\E w \in DictWords : Add(w)) \/ Write \/ Read

Spec == Init /\ [][Next]_vars

----------------------------------------------------------------------------
(* The search over indexes built by add and reloaded through the codec *)

\* the letters searched for: ab, A, and a1, which from_word rejects
Queries == {<<97, 98>>, <<65>>, <<97, 49>>}

Lengths == 0..MaxLen

\* the words of the dictionaries searched: "", a, A, ab, ba; and a1, which
\* from_word rejects
SearchWords == {<<>>, <<97>>, <<65>>, <<97, 98>>, <<98, 97>>, <<97, 49>>}

\* write_dict of the index into a file, then read_dict of that file
Reload ==
    /\ ret.op # "search"
    /\ \E order \in Orders(DOMAIN word_count) :
          LET r == read_dict([bytes |-> write_dict(word_string, word_count, order),
                              end |-> "eof"])
              d == from_raw_parts(r.word_string, r.word_count)
          IN  /\ r.ok
              /\ word_string' = d.word_string
              /\ word_count' = d.word_count
              /\ word_set' = d.word_set
    /\ origin' = "read"
    /\ inserted' = {}
    /\ ret' = [op |-> "reload"]
    /\ UNCHANGED <<file, input>>

\* what the Search arm of main may print for `letters`: per minimum and
\* maximum length, the scan yields the kept entries in any order and the sort
\* follows
SearchResults(letters) ==
    LET r == search_scan(word_string, word_count, letters)
    IN  UNION {
          IF ~r.ok
          THEN {[op |-> "search", letters |-> letters,
                 min_length |-> a[1], max_length |-> a[2], res |-> r]}
          ELSE {[op |-> "search", letters |-> letters,
                 min_length |-> a[1], max_length |-> a[2],
                 res |-> [ok |-> TRUE,
                          words |-> par_sort_unstable(
                              search_collect(word_string, word_count, order))]] :
                 order \in Orders(filter_length(word_string, word_count,
                                                r.matched, a[1], a[2]))} :
          a \in Lengths \X ({None} \cup {Some(n) : n \in Lengths}) }

\* the Search arm of main; the run ends with the words printed
Search ==
    /\ ret.op # "search"
    /\ \E letters \in Queries : ret' \in SearchResults(letters)
    /\ UNCHANGED <<word_string, word_count, word_set, file, origin, inserted, input>>

NextSearch == (\E w \in SearchWords : ret.op # "search" /\ Add(w)) \/ Reload \/ Search

SpecSearch == Init /\ [][NextSearch]_vars

----------------------------------------------------------------------------
(* read_dict on generated byte streams, then a scan of what it returned *)

\* the header up to the version: good, a wrong magic, a wrong version
GenHeaders ==
    {MAGIC \o to_le_bytes(FORMAT_VERSION, 4),
     <<68, 73, 67, 75>> \o to_le_bytes(FORMAT_VERSION, 4),
     MAGIC \o to_le_bytes(FORMAT_VERSION + 1, 4)}

\* two bytes of text: "ab", and "a" followed by a byte that is not UTF-8
GenTexts == {<<97, 98>>, <<97, 255>>}

\* records: "a" at 0, "b" at 1, and a span of three bytes at 0
GenRecords ==
    {to_le_bytes(0, USIZE) \o to_le_bytes(1, USIZE) \o from_word(<<97>>).val,
     to_le_bytes(1, USIZE) \o to_le_bytes(1, USIZE) \o from_word(<<98>>).val,
     to_le_bytes(0, USIZE) \o to_le_bytes(3, USIZE) \o Zero13}

\* the record areas of n records
RECURSIVE GenAreas(_)
GenAreas(n) ==
    IF n = 0 THEN {<<>>} ELSE {r \o a : r \in GenRecords, a \in GenAreas(n - 1)}

\* whole files: a header, the declared record count and string length, the
\* text and as many records as declared
GenFiles ==
    UNION {{h \o to_le_bytes(n, USIZE) \o to_le_bytes(sl, USIZE) \o t \o a :
               h \in GenHeaders, sl \in 0..MaxStr, t \in GenTexts, a \in GenAreas(n)} :
           n \in 0..MaxRecs}

InitRead ==
    /\ NewIndex
    /\ \E f \in GenFiles, cut \in 0..(USIZE * 3 + MaxStr + MaxRecs * WORD_COUNT_STRIDE),
          end \in {"eof", "err"} :
          /\ cut <= Len(f)
          /\ input = [bytes |-> SubSeq(f, 1, cut), end |-> end]
    /\ ret = [op |-> "none"]

CallReadDict ==
    /\ ret.op = "none"
    /\ LET r == read_dict(input)
       IN  /\ ret' = [op |-> "read_dict", res |-> r]
           /\ IF r.ok
              THEN LET d == from_raw_parts(r.word_string, r.word_count)
                   IN  /\ word_string' = d.word_string
                       /\ word_count' = d.word_count
                       /\ word_set' = d.word_set
                       /\ origin' = "read"
              ELSE UNCHANGED <<word_string, word_count, word_set, origin>>
    /\ UNCHANGED <<file, inserted, input>>

\* par_iter() over the index that read_dict returned
Scan ==
    /\ ret.op = "read_dict"
    /\ ret.res.ok
    /\ ret' = [op |-> "scan",
               res |-> IF \E k \in DOMAIN word_count : ~entry(word_string, word_count, k).ok
                       THEN [ok |-> FALSE, err |-> "panic"]
                       ELSE [ok |-> TRUE,
                             entries |-> {entry(word_string, word_count, k) :
                                             k \in DOMAIN word_count}]]
    /\ UNCHANGED <<word_string, word_count, word_set, file, origin, inserted, input>>

NextRead == CallReadDict \/ Scan

SpecRead == InitRead /\ [][NextRead]_vars

----------------------------------------------------------------------------
(* Claims about the encoder *)

\* occurrences of letter i (0..25) in a word, upper and lower case together
Occ(word, i) == Cardinality({k \in 1..Len(word) : word[k] = 65 + i \/ word[k] = 97 + i})

IsLetterByte(b) == b \in (65..90) \cup (97..122)

Outcome(res) == IF res.ok THEN "Ok" ELSE res.err

\* C5: from_word has exactly one outcome per word, decided in this order:
\* NotAscii if any byte is >= 0x80; otherwise NotAlphabetic if any byte is not an
\* ASCII letter; otherwise CountOverflow if some letter occurs 16 or more times,
\* both cases together; otherwise success.
C5_EncodeOutcome ==
    ret.op = "from_word" =>
        Outcome(ret.res) =
            IF \E k \in 1..Len(ret.word) : ret.word[k] >= 128 THEN "NotAscii"
            ELSE IF \E k \in 1..Len(ret.word) : ~IsLetterByte(ret.word[k])
                 THEN "NotAlphabetic"
            ELSE IF \E i \in 0..25 : Occ(ret.word, i) >= 16 THEN "CountOverflow"
            ELSE "Ok"

\* a word with a non-ASCII character and a digit was rejected as NotAscii
C5_Witness ==
    /\ ret.op = "from_word"
    /\ \E k \in 1..Len(ret.word) : ret.word[k] >= 128
    /\ \E k \in 1..Len(ret.word) : ret.word[k] = 49
    /\ Outcome(ret.res) = "NotAscii"

\* a word with 15 occurrences of one letter in mixed case was encoded
C5_Boundary15 ==
    /\ ret.op = "from_word"
    /\ \E i \in 0..25 : Occ(ret.word, i) = 15
    /\ \E k \in 1..Len(ret.word) : ret.word[k] = 65
    /\ \E k \in 1..Len(ret.word) : ret.word[k] = 97
    /\ ret.res.ok

\* C8: for every word that encodes, decoding gives at letter i the number of
\* occurrences of that letter counted case-insensitively, and that count sits in
\* bits [(i mod 2)*4, (i mod 2)*4 + 4) of byte i div 2 of the 13-byte block.
C8_Packing ==
    ret.op = "into_array" =>
        \A i \in 0..25 :
            /\ ret.array[i + 1] = Occ(ret.word, i)
            /\ (ret.set[(i \div 2) + 1] \div (IF i % 2 = 0 THEN 1 ELSE 16)) % 16
                   = Occ(ret.word, i)

\* the single-letter word "z" decoded to 1 at position 25 and 0 elsewhere
C8_Witness ==
    /\ ret.op = "into_array"
    /\ ret.word = <<122>>
    /\ ret.array = [i \in 1..26 |-> IF i = 26 THEN 1 ELSE 0]
    /\ ret.set[13] = 16

\* the count of letter i of a block, read at nibble granularity
Nib(set, i) == (set[(i \div 2) + 1] \div (IF i % 2 = 0 THEN 1 ELSE 16)) % 16

\* C6: a.contains(b) is true if and only if at each of the 26 letter positions the
\* count of a is >= the count of b; in particular x.contains(x) is true.
C6_Contains ==
    ret.op = "contains" =>
        /\ ret.val = (\A i \in 0..25 : Nib(ret.self, i) >= Nib(ret.other, i))
        /\ (ret.self = ret.other => ret.val)

\* a containment that is false although every byte of self is >= that of other
C6_Witness ==
    /\ ret.op = "contains"
    /\ ret.val = FALSE
    /\ \A j \in 1..13 : ret.self[j] >= ret.other[j]

----------------------------------------------------------------------------
(* Claims about the index and the codec *)

\* the text of a span of a buffer
TextOf(ws, k) == SubSeq(ws, k[1] + 1, k[1] + k[2])

\* an index as the set of its (word text, CountSet) pairs
Pairs(ws, wc) == {<<TextOf(ws, k), wc[k]>> : k \in DOMAIN wc}

\* some entry of the index has the text w
Stored(w) == \E k \in DOMAIN word_count : TextOf(word_string, k) = w

\* C1: when add fails with an encoding error, the index is exactly as it was
\* before the call: the buffer, the mapping and the existence-check set.
C1_AddFailureAtomic ==
    [][(ret'.op = "add" /\ ~ret'.res.ok)
          => UNCHANGED <<word_string, word_count, word_set>>]_vars

\* C3: read(write(index)) succeeds and returns an index with the same word-string
\* and the same set of (word text, CountSet) pairs, whatever order the map
\* yielded its records in.
C3_RoundTrip ==
    ret.op = "write" =>
        LET r == read_dict([bytes |-> file, end |-> "eof"])
        IN  /\ r.ok
            /\ r.word_string = word_string
            /\ Pairs(r.word_string, r.word_count) = Pairs(word_string, word_count)

\* an index built from empty was written with two records out of offset order
C3_Witness ==
    /\ ret.op = "write"
    /\ origin = "new"
    /\ Len(ret.order) >= 2
    /\ ret.order[1][1] > ret.order[2][1]
    /\ read_dict([bytes |-> file, end |-> "eof"]).ok

\* C4: from an empty index, size() equals the number of distinct word texts
\* inserted, and inserting a word already present leaves buffer and mapping
\* unchanged.
C4_Dedup ==
    /\ [](origin = "new" => len(word_count) = Cardinality(inserted))
    /\ [][(origin = "new" /\ ret'.op = "add" /\ ret'.word \in inserted)
             => UNCHANGED <<word_string, word_count>>]_vars

\* a non-empty word was inserted again into an index built from empty: the
\* call returned Ok and the buffer does not end with it
C4_Witness ==
    /\ origin = "new"
    /\ ret.op = "add"
    /\ ret.res.ok
    /\ ret.word # <<>>
    /\ ret.word \in inserted
    /\ len(word_count) = 2
    /\ SubSeq(word_string, Len(word_string) - Len(ret.word) + 1, Len(word_string)) # ret.word

\* the step is the first add, on a loaded index, of a word the index stores
FirstAddAfterLoad ==
    /\ origin = "read"
    /\ ret'.op = "add"
    /\ ret'.word \notin inserted
    /\ Stored(ret'.word)

\* a later add of a word added since the load is a no-op
LaterAddNoOp ==
    (origin = "read" /\ ret'.op = "add" /\ ret'.word \in inserted)
        => UNCHANGED <<word_string, word_count, word_set>>

\* C9 as stated: on a loaded index the first add of every stored word appends
\* it to the buffer, adds a second entry and grows size() by exactly 1; any
\* later add of it is a no-op.
C9_AsStated ==
    /\ [][FirstAddAfterLoad =>
             /\ ret'.res.ok
             /\ word_string' = word_string \o ret'.word
             /\ len(word_count') = len(word_count) + 1]_vars
    /\ [][LaterAddNoOp]_vars

\* C9 amended: on a loaded index the first add of a stored word w appends it to
\* the buffer and records it in the existence-check set; it adds a second
\* entry and grows size() by exactly 1 unless the span (buffer length, len(w))
\* is already mapped, which in a written index happens only for the empty word
\* stored at the end of the buffer: then mapping and size are unchanged.  Any
\* later add of w is a no-op.
C9_InsertAfterReload ==
    /\ [][FirstAddAfterLoad =>
             LET key == <<Len(word_string), Len(ret'.word)>>
             IN  /\ ret'.res.ok
                 /\ word_string' = word_string \o ret'.word
                 /\ ret'.word \in word_set'
                 /\ IF key \in DOMAIN word_count
                    THEN ret'.word = <<>> /\ word_count' = word_count
                    ELSE /\ len(word_count') = len(word_count) + 1
                         /\ DOMAIN word_count' = DOMAIN word_count \cup {key}
                         /\ \A k \in DOMAIN word_count : word_count'[k] = word_count[k]
                         /\ \E k \in DOMAIN word_count :
                               /\ TextOf(word_string, k) = ret'.word
                               /\ word_count'[key] = word_count[k]]_vars
    /\ [][LaterAddNoOp]_vars

\* a loaded index holds two entries for the word just added
C9_Witness ==
    /\ origin = "read"
    /\ ret.op = "add"
    /\ ret.res.ok
    /\ \E k1, k2 \in DOMAIN word_count :
          /\ k1 # k2
          /\ TextOf(word_string, k1) = ret.word
          /\ TextOf(word_string, k2) = ret.word

----------------------------------------------------------------------------
(* Claims about the search *)

\* the entry text t is one the search for ret.letters must emit
Wanted(t) ==
    /\ \A i \in 0..25 : Occ(ret.letters, i) >= Occ(t, i)
    /\ ret.min_length <= Len(t)
    /\ (ret.max_length.some => Len(t) <= ret.max_length.val)

----------------------------------------------------------------------------
(* Claims about read_dict on arbitrary streams *)

\* the stream has the magic and the version, both length fields, and ends
\* before the declared string and records are all there
Truncated ==
    /\ Len(input.bytes) >= USIZE * 3
    /\ SubSeq(input.bytes, 1, 8) = MAGIC \o <<1, 0, 0, 0>>
    /\ input.end = "eof"
    /\ Len(input.bytes) <
           USIZE * 3 + from_le_bytes(SubSeq(input.bytes, 17, 24))
               + from_le_bytes(SubSeq(input.bytes, 9, 16)) * 29

\* C2: on a stream with valid magic and version that is exhausted before a
\* declared length is satisfied, inside the string bytes or inside the record
\* area, read_dict returns FormatError and never the I/O error.
C2_TruncationIsFormatError ==
    (ret.op = "read_dict" /\ Truncated) => ret.res = FormatError

\* C10: every index that read_dict returns has all its spans inside its
\* word-string: offset + length <= the byte length of the string.
C10_SpansInside ==
    (ret.op = "read_dict" /\ ret.res.ok) =>
        \A k \in DOMAIN word_count : k[1] + k[2] <= Len(word_string)

====
